---- MODULE Spec2Model ----
(***************************************************************************)
(* Semantic memory of the web-search agent: the in-memory MemoryManager    *)
(* (memory.py), the page store written by save_to_index (action.py), the   *)
(* chunk index written by process_webpage and read by search_pages         *)
(* (mcp_server.py), and the ingestion handler WebSearchAgent.process_page  *)
(* (agent.py).                                                             *)
(*                                                                         *)
(* A text is known by its words (maximal runs of non-whitespace            *)
(* characters).  An embedding is the pair of the text it was computed from *)
(* and its dimension; the provider either fails or answers with some       *)
(* dimension.                                                              *)
(* Timestamps are left out: no operation reads them.                       *)
(***************************************************************************)
EXTENDS Integers, Sequences, FiniteSets, TLC

VARIABLES
    dataJson,     \* faiss_index/data.json        (action.py)
    metaJson,     \* faiss_index/metadata.json    (action.py, mcp_server.py)
    cacheJson,    \* faiss_index/webpage_cache.json
    indexBin,     \* faiss_index/index.bin
    index,        \* MemoryManager.index
    data,         \* MemoryManager.data
    embeddings,   \* MemoryManager.embeddings
    last,         \* the last completed call and its result
    nops,         \* number of calls completed so far
    hist,         \* history: MemoryManager.add calls that added and that
                  \* raised; the content of the first save_to_index call
                  \* made for each url
    pc,           \* position of every concurrent process
    loc,          \* local variables of every concurrent process
    jobs          \* the ingestion requests each writer still has to serve

files == <<dataJson, metaJson, cacheJson, indexBin>>
memory == <<index, data, embeddings>>
procs == <<pc, loc, jobs>>
vars == <<dataJson, metaJson, cacheJson, indexBin, index, data, embeddings,
          last, nops, hist, pc, loc, jobs>>

----------------------------------------------------------------------------
(* Bounds and program constants *)

MaxOps == 3
MaxPages == 2
MaxJobs == 2
CHUNK_SIZE == 256
CHUNK_OVERLAP == 40
dim == 768

URLS == {"http://a", "http://b"}
Titles == {"", "T"}
\* what the embedding provider answers: 0 is a provider error or timeout,
\* any other value the dimension of the vector it returns
Dims == {dim, dim \div 2}
Outcomes == {0} \cup Dims

Min(a, b) == IF a <= b THEN a ELSE b

\* A text is a slice of a source document: the words lo..hi of document
\* src, joined by single spaces (the words of a document are pairwise
\* different, so a slice stands for exactly one string).  Document 0 holds
\* whitespace characters only.  EmptyText is the string "".
EmptyText == [src |-> 0, lo |-> 1, hi |-> 0]
Text(src, n) == IF n = 0 THEN EmptyText ELSE [src |-> src, lo |-> 1, hi |-> n]

\* len(text.split())
NWords(text) == IF text.src = 0 THEN 0 ELSE text.hi - text.lo + 1

\* " ".join(text.split()[i:j])
Slice(text, i, j) ==
    LET e == Min(j, NWords(text))
    IN  IF i >= e THEN EmptyText
        ELSE [src |-> text.src, lo |-> text.lo + i, hi |-> text.lo + e - 1]

Blank == [src |-> 0, lo |-> 1, hi |-> 1]
TextA == Text(1, 2)
\* the shortest text that chunk_text cuts into two chunks
LongText == Text(2, CHUNK_SIZE - CHUNK_OVERLAP + 1)
\* what a fetched page can hold (perception strips and collapses whitespace)
PageTexts == {EmptyText, TextA, LongText}
\* what a direct caller can pass
Texts == PageTexts \cup {Blank}

----------------------------------------------------------------------------
(* mcp_server.py: chunk_text, content_hash *)

\* range(0, n, step) as the sequence of its values; step > 0
Range(n, step) == [k \in 1..((n + step - 1) \div step) |-> (k - 1) * step]

\* mutant: the windows do not overlap (the step is size)
chunk_text_stepsize(text, size, overlap) ==
    LET starts == Range(NWords(text), size)
    IN  [raised |-> size = overlap,
         chunks |-> [k \in 1..Len(starts) |->
                        Slice(text, starts[k], starts[k] + size)]]

\* chunk_text(text, size, overlap): raised when range() rejects a step of 0;
\* a negative step gives an empty range
chunk_text(text, size, overlap) ==
    LET step == size - overlap
    IN  IF step = 0 THEN [raised |-> TRUE, chunks |-> <<>>]
        ELSE IF step < 0 THEN [raised |-> FALSE, chunks |-> <<>>]
        ELSE LET starts == Range(NWords(text), step)
             IN  [raised |-> FALSE,
                  chunks |-> [k \in 1..Len(starts) |->
                                 Slice(text, starts[k], starts[k] + size)]]

\* content_hash(text): a digest of the text (md5 in the source; the digest
\* here is many-to-one as md5 is, and separates the texts of Texts)
content_hash(text) == (text.src * 961 + text.lo * 31 + text.hi) % 65521

----------------------------------------------------------------------------
(* faiss.IndexFlatL2 as the code uses it *)

NoIndex == [init |-> FALSE, d |-> 0, vecs |-> <<>>]
IndexFlatL2(d) == [init |-> TRUE, d |-> d, vecs |-> <<>>]
ntotal(ix) == Len(ix.vecs)
\* np.stack(embs) raises on arrays of different shapes
StackOk(embs) == \A i \in 1..Len(embs) : embs[i].dim = embs[1].dim
\* index.add(x) asserts x.shape[1] == index.d before it touches the index
AddOk(ix, embs) == \A i \in 1..Len(embs) : embs[i].dim = ix.d
IndexAdd(ix, embs) == [ix EXCEPT !.vecs = @ \o embs]

\* get_embedding(text) when the provider answers with dimension d
Embedding(text, d) == [of |-> text, dim |-> d]

----------------------------------------------------------------------------
(* Files: st is "none" (no such file), "ok" or "partial" (opened for       *)
(* writing and truncated, the new content not yet complete)                *)

NoFile(v) == [st |-> "none", v |-> v]
File(v) == [st |-> "ok", v |-> v]
Exists(f) == f.st # "none"
Readable(f) == f.st # "partial"

\* models.py MemoryItem
MemoryItem(url, title, content, type, session_id) ==
    [url |-> url, title |-> title, content |-> content, type |-> type,
     session_id |-> session_id, embedding |-> <<>>]

Urls(items) == {items[i].url : i \in 1..Len(items)}

\* a dict url -> hash as the set of its items
CachePut(cache, url, h) == {p \in cache : p[1] # url} \cup {<<url, h>>}

Fs(d, m, c, i) == [data |-> d, meta |-> m, cache |-> c, index |-> i]

----------------------------------------------------------------------------
(* action.py: save_to_index *)

\* lines 130-141: metadata.json, webpage_cache.json and index.bin are
\* re-created empty unless all three exist
\* mutant: the three files are re-created on every new page
CreateEmptyIndexFiles_always(fs) ==
    [fs EXCEPT !.meta = File(<<>>), !.cache = File({}),
               !.index = File(IndexFlatL2(dim))]

CreateEmptyIndexFiles(fs) ==
    IF Exists(fs.index) /\ Exists(fs.meta) /\ Exists(fs.cache) THEN fs
    ELSE [fs EXCEPT !.meta = File(<<>>), !.cache = File({}),
                    !.index = File(IndexFlatL2(dim))]

\* mutant: no check that the url is already stored
save_to_index_append(fs, content) ==
    LET existing_data == IF Exists(fs.data) THEN fs.data.v ELSE <<>>
    IN  [fs |-> CreateEmptyIndexFiles(
                   [fs EXCEPT !.data = File(Append(existing_data, content))]),
         success |-> TRUE, added |-> TRUE]

save_to_index(fs, content) ==
    IF ~Readable(fs.data) THEN [fs |-> fs, success |-> FALSE, added |-> FALSE]
    ELSE
    LET existing_data == IF Exists(fs.data) THEN fs.data.v ELSE <<>>
        url_exists == content.url \in Urls(existing_data)
    IN  IF ~url_exists
        THEN [fs |-> CreateEmptyIndexFiles(
                        [fs EXCEPT !.data = File(Append(existing_data, content))]),
              success |-> TRUE, added |-> TRUE]
        ELSE [fs |-> fs, success |-> TRUE, added |-> FALSE]

----------------------------------------------------------------------------
(* mcp_server.py: process_webpage *)

\* lines 249-251: the three files as loaded (a missing file gives the default)
PwLoad(fs) ==
    [cache |-> IF Exists(fs.cache) THEN fs.cache.v ELSE {},
     metadata |-> IF Exists(fs.meta) THEN fs.meta.v ELSE <<>>,
     index |-> IF Exists(fs.index) THEN fs.index.v ELSE NoIndex]

ChunkRecord(url, title, chunk, i) ==
    [url |-> url, title |-> title, chunk |-> chunk, chunk_id |-> <<url, i>>]

\* mutant: the index gets the newest embedding only
UpdateIndexAndMetadata_newest(st, url, h) ==
    LET ix == IF st.index.init THEN st.index
              ELSE IndexFlatL2(st.embeddings_for_page[1].dim)
        newest == <<st.embeddings_for_page[Len(st.embeddings_for_page)]>>
    IN  IF ~StackOk(st.embeddings_for_page) \/ ~AddOk(ix, st.embeddings_for_page)
        THEN [st EXCEPT !.raised = "dimension"]
        ELSE [st EXCEPT !.index = IndexAdd(ix, newest),
                        !.metadata = @ \o st.new_metadata,
                        !.cache = CachePut(@, url, h)]

\* lines 283-289, run inside the for loop once per chunk: everything
\* embedded so far for the page is added to the index and to the metadata
UpdateIndexAndMetadata(st, url, h) ==
    LET ix == IF st.index.init THEN st.index
              ELSE IndexFlatL2(st.embeddings_for_page[1].dim)
    IN  IF ~StackOk(st.embeddings_for_page) \/ ~AddOk(ix, st.embeddings_for_page)
        THEN [st EXCEPT !.raised = "dimension"]
        ELSE [st EXCEPT !.index = IndexAdd(ix, st.embeddings_for_page),
                        !.metadata = @ \o st.new_metadata,
                        !.cache = CachePut(@, url, h)]

RECURSIVE EmbedLoop(_, _, _, _, _, _, _)
\* lines 271-289: the for loop over the chunks, from chunk i on
EmbedLoop(st, chunks, outs, i, url, title, h) ==
    IF i > Len(chunks) \/ st.raised # "none" THEN st
    ELSE IF outs[i] = 0
    THEN [st EXCEPT !.raised = "embedding", !.requests = @ + 1]
    ELSE LET st1 == [st EXCEPT
                 !.requests = @ + 1,
                 !.embeddings_for_page = Append(@, Embedding(chunks[i], outs[i])),
                 !.new_metadata = Append(@, ChunkRecord(url, title, chunks[i], i - 1))]
         IN  EmbedLoop(UpdateIndexAndMetadata(st1, url, h),
                       chunks, outs, i + 1, url, title, h)

\* mutant: the unchanged-content check of lines 255-257 is missing
PwCompute_noskip(ld, url, content, title, outs) ==
    LET h == content_hash(content)
        st0 == [cache |-> ld.cache, metadata |-> ld.metadata, index |-> ld.index,
                embeddings_for_page |-> <<>>, new_metadata |-> <<>>,
                raised |-> "none", requests |-> 0]
        st == EmbedLoop(st0, chunk_text(content, CHUNK_SIZE, CHUNK_OVERLAP).chunks,
                        outs, 1, url, title, h)
    IN  [status |-> IF st.raised # "none" THEN "error" ELSE "save", st |-> st]

\* lines 253-292 on the loaded files: status is "skip" (line 257), "error"
\* (line 292) or "save" (the writes of lines 295-298 follow)
PwCompute(ld, url, content, title, outs) ==
    LET h == content_hash(content)
        st0 == [cache |-> ld.cache, metadata |-> ld.metadata, index |-> ld.index,
                embeddings_for_page |-> <<>>, new_metadata |-> <<>>,
                raised |-> "none", requests |-> 0]
    IN  IF <<url, h>> \in ld.cache
        THEN [status |-> "skip", st |-> st0]
        ELSE LET st == EmbedLoop(st0, chunk_text(content, CHUNK_SIZE, CHUNK_OVERLAP).chunks,
                                 outs, 1, url, title, h)
             IN  [status |-> IF st.raised # "none" THEN "error" ELSE "save",
                  st |-> st]

\* line 297: the index is written only when it holds a vector
IndexWritten(ix) == ix.init /\ ntotal(ix) > 0

Write(f, v) == [f |-> f, v |-> v]

\* mutant: the index is saved before the metadata
PwWrites_indexFirst(st) ==
    <<Write("cache", st.cache)>>
    \o (IF IndexWritten(st.index) THEN <<Write("index", st.index)>> ELSE <<>>)
    \o <<Write("meta", st.metadata)>>

\* lines 295-298: the files process_webpage writes, in the order it writes
\* them
PwWrites(st) ==
    <<Write("cache", st.cache), Write("meta", st.metadata)>>
    \o (IF IndexWritten(st.index) THEN <<Write("index", st.index)>> ELSE <<>>)

\* process_webpage as one call: ret is its return value
process_webpage(fs, url, content, title, outs) ==
    IF ~(Readable(fs.cache) /\ Readable(fs.meta) /\ Readable(fs.index))
    THEN [fs |-> fs, ret |-> FALSE, status |-> "error", raised |-> "load", requests |-> 0]
    ELSE
    LET c == PwCompute(PwLoad(fs), url, content, title, outs)
    IN  CASE c.status = "skip" ->
               [fs |-> fs, ret |-> TRUE, status |-> "skip", raised |-> "none",
                requests |-> 0]
          [] c.status = "error" ->
               [fs |-> fs, ret |-> FALSE, status |-> "error",
                raised |-> c.st.raised, requests |-> c.st.requests]
          [] OTHER ->
               [fs |-> [fs EXCEPT !.cache = File(c.st.cache),
                                  !.meta = File(c.st.metadata),
                                  !.index = IF IndexWritten(c.st.index)
                                            THEN File(c.st.index) ELSE @],
                ret |-> IndexWritten(c.st.index),
                status |-> "save", raised |-> "none", requests |-> c.st.requests]

\* the number of chunks of a text, which is the number of embedding requests
\* a call can make
ChunkCounts ==
    [t \in Texts |-> Len(chunk_text(t, CHUNK_SIZE, CHUNK_OVERLAP).chunks)]
NChunks(content) == ChunkCounts[content]

----------------------------------------------------------------------------
(* memory.py: MemoryManager.add *)

Mem(ix, d, e) == [index |-> ix, data |-> d, embeddings |-> e]

\* mutant: the vector that creates the index is not added to it
add_firstNotIndexed(m, item, out) ==
    IF item.content = EmptyText THEN [mem |-> m, raised |-> "none", requests |-> 0]
    ELSE IF out = 0 THEN [mem |-> m, raised |-> "embedding", requests |-> 1]
    ELSE
    LET emb == Embedding(item.content, out)
        m1 == [m EXCEPT !.embeddings = Append(@, emb),
                        !.data = Append(@, [item EXCEPT !.embedding = <<emb>>])]
    IN  IF ~m.index.init
        THEN [mem |-> [m1 EXCEPT !.index = IndexFlatL2(emb.dim)],
              raised |-> "none", requests |-> 1]
        ELSE IF AddOk(m.index, <<emb>>)
        THEN [mem |-> [m1 EXCEPT !.index = IndexAdd(m.index, <<emb>>)],
              raised |-> "none", requests |-> 1]
        ELSE [mem |-> m1, raised |-> "dimension", requests |-> 1]

\* mutant: an index of another dimension is replaced by a new one
add_reinit(m, item, out) ==
    IF item.content = EmptyText THEN [mem |-> m, raised |-> "none", requests |-> 0]
    ELSE IF out = 0 THEN [mem |-> m, raised |-> "embedding", requests |-> 1]
    ELSE
    LET emb == Embedding(item.content, out)
        m1 == [m EXCEPT !.embeddings = Append(@, emb),
                        !.data = Append(@, [item EXCEPT !.embedding = <<emb>>])]
        ix == IF m.index.init /\ m.index.d = emb.dim THEN m.index
              ELSE IndexFlatL2(emb.dim)
    IN  [mem |-> [m1 EXCEPT !.index = IndexAdd(ix, <<emb>>)],
         raised |-> "none", requests |-> 1]

\* raised: "none", "embedding" (line 38) or "dimension" (line 47)
add(m, item, out) ==
    IF item.content = EmptyText THEN [mem |-> m, raised |-> "none", requests |-> 0]
    ELSE IF out = 0 THEN [mem |-> m, raised |-> "embedding", requests |-> 1]
    ELSE
    LET emb == Embedding(item.content, out)
        m1 == [m EXCEPT !.embeddings = Append(@, emb),
                        !.data = Append(@, [item EXCEPT !.embedding = <<emb>>])]
        ix == IF m.index.init THEN m.index ELSE IndexFlatL2(emb.dim)
    IN  IF AddOk(ix, <<emb>>)
        THEN [mem |-> [m1 EXCEPT !.index = IndexAdd(ix, <<emb>>)],
              raised |-> "none", requests |-> 1]
        ELSE [mem |-> [m1 EXCEPT !.index = ix], raised |-> "dimension",
              requests |-> 1]

\* _find_best_match works on characters: here a string is the sequence of
\* its characters
Str3(a, b, c) == <<a, b, c>>
IsSpace(ch) == ch = " "

\* str.lower() on the characters used
LowerChar(ch) ==
    IF ch = "A" THEN "a" ELSE IF ch = "B" THEN "b" ELSE IF ch = "T" THEN "t" ELSE ch
Lower(str) == [k \in 1..Len(str) |-> LowerChar(str[k])]

\* str.split(): the maximal runs of non-whitespace characters
RECURSIVE SplitFrom(_, _, _)
SplitFrom(str, k, cur) ==
    IF k > Len(str) THEN (IF cur = <<>> THEN <<>> ELSE <<cur>>)
    ELSE IF IsSpace(str[k])
         THEN (IF cur = <<>> THEN <<>> ELSE <<cur>>) \o SplitFrom(str, k + 1, <<>>)
         ELSE SplitFrom(str, k + 1, Append(cur, str[k]))
Split(str) == SplitFrom(str, 1, <<>>)

\* mutant: short words are kept
QueryWords_all(query) == [k \in 1..Len(Split(query)) |-> Lower(Split(query)[k])]

\* line 93: the lowercased words of the query that are longer than 2
QueryWords(query) ==
    LET long == SelectSeq(Split(query), LAMBDA w : Len(w) > 2)
    IN  [k \in 1..Len(long) |-> Lower(long[k])]

\* str[i:j] with 0 <= i
StrSlice(str, i, j) == SubSeq(str, i + 1, Min(j, Len(str)))

\* window.find(word): the lowest offset at which word occurs, or -1
Find(window, word) ==
    LET at == {q \in 0..(Len(window) - Len(word)) :
                 \A k \in 1..Len(word) : window[q + k] = word[k]}
    IN  IF at = {} THEN -1 ELSE CHOOSE q \in at : \A r \in at : q <= r

SetMax(S) == CHOOSE x \in S : \A y \in S : y <= x
SetMin(S) == CHOOSE x \in S : \A y \in S : x <= y

window_sizes == <<100, 200, 300>>
context_before == 20
context_after == 20
\* scores are kept as multiples of 1/ScoreUnit, which every window size
\* divides
ScoreUnit == 600

\* lines 105-107: the windows in the order the loops visit them
WindowsOf(n, ws) ==
    LET starts == Range(n, ws \div 2)
    IN  [k \in 1..Len(starts) |-> [size |-> ws, i |-> starts[k]]]
Windows(n) ==
    WindowsOf(n, window_sizes[1]) \o WindowsOf(n, window_sizes[2])
    \o WindowsOf(n, window_sizes[3])

\* lines 108-135 for one window: its match offsets and its score
Scored(content_lower, query_words, w) ==
    LET window == StrSlice(content_lower, w.i, w.i + w.size)
        match_positions ==
           {Find(window, query_words[k]) : k \in 1..Len(query_words)} \ {-1}
        matches == Cardinality({k \in 1..Len(query_words) :
                                   Find(window, query_words[k]) # -1})
    IN  [matches |-> matches, positions |-> match_positions,
         score |-> IF match_positions = {} THEN 0
                   ELSE matches * 2 * ScoreUnit
                        + (w.size - (SetMax(match_positions) - SetMin(match_positions)))
                              * (ScoreUnit \div w.size)
                        + ScoreUnit - SetMin(match_positions) * (ScoreUnit \div w.size)]

\* lines 137-148: the best window so far after window k of wins
RECURSIVE BestOver(_, _, _, _, _, _)
BestOver(content_lower, n, query_words, wins, k, best) ==
    IF k > Len(wins) THEN best
    ELSE LET w == wins[k]
             sc == Scored(content_lower, query_words, w)
         IN  IF sc.matches = 0 \/ ~(sc.score > best.score)
             THEN BestOver(content_lower, n, query_words, wins, k + 1, best)
             ELSE LET first_match == SetMin(sc.positions)
                      last_match == SetMax(sc.positions)
                                    + Len(query_words[Len(query_words)])
                      max0 == IF first_match - context_before > 0
                              THEN first_match - context_before ELSE 0
                  IN  BestOver(content_lower, n, query_words, wins, k + 1,
                         [score |-> sc.score,
                          start |-> w.i + max0,
                          end |-> w.i + Min(n, last_match + context_after)])

\* MemoryManager._find_best_match(content, query)
find_best_match(content, query) ==
    LET query_words == QueryWords(query)
    IN  IF query_words = <<>> THEN <<0, 0>>
        ELSE LET best == BestOver(Lower(content), Len(content), query_words,
                                  Windows(Len(content)), 1,
                                  [score |-> -ScoreUnit, start |-> 0, end |-> 0])
             IN  <<best.start, best.end>>

\* models.py SearchQuery
SearchQuery(query, top_k, session_filter) ==
    [query |-> query, top_k |-> top_k, session_filter |-> session_filter]

\* the orders in which an index of n vectors can rank them for a query
\* (nearest first); positions count from 0
Orders(n) ==
    {o \in [1..n -> 0..(n - 1)] : \A i, j \in 1..n : o[i] = o[j] => i = j}

\* index.search(query_vec, k): the k nearest positions, filled up with -1
\* when the index holds fewer than k vectors
IndexSearch(ix, k, order) ==
    [j \in 1..k |-> IF j <= ntotal(ix) THEN order[j] ELSE -1]

\* self.data[idx] for a position the index returned: a negative idx counts
\* from the end of the list
DataAt(d, idx) == IF idx < 0 THEN d[Len(d) + idx + 1] ELSE d[idx + 1]

NoResults(raised, requests) ==
    [raised |-> raised, requests |-> requests, results |-> <<>>,
     total_matches |-> 0]

\* lines 57-80: one result for every returned position below len(self.data).
\* pos is the position the result was built from; its highlight span is
\* _find_best_match(content, query)
SearchResults(m, query, I) ==
    LET kept == SelectSeq(I, LAMBDA idx : ~(idx >= Len(m.data)))
    IN  [j \in 1..Len(kept) |->
            LET item == DataAt(m.data, kept[j])
            IN  [pos |-> kept[j], url |-> item.url, title |-> item.title,
                 content |-> item.content, query |-> query.query]]

\* mutant: no early return on an empty memory
search_noguard(m, query, out, order) ==
    IF out = 0 THEN NoResults("embedding", 1)
    ELSE IF m.index.init /\ out # m.index.d THEN NoResults("dimension", 1)
    ELSE LET res == IF Len(m.data) = 0 THEN <<>>
                    ELSE SearchResults(m, query,
                            IndexSearch(m.index, query.top_k * 2, order))
         IN  [raised |-> "none", requests |-> 1, results |-> res,
              total_matches |-> Len(res)]

\* MemoryManager.search(query): out is the provider's answer for the query
\* text, order the ranking of the index.  raised: "none", "embedding"
\* (line 54) or "dimension" (line 55).  query.session_filter is not read.
search(m, query, out, order) ==
    IF ~m.index.init \/ Len(m.data) = 0 THEN NoResults("none", 0)
    ELSE IF out = 0 THEN NoResults("embedding", 1)
    ELSE IF out # m.index.d THEN NoResults("dimension", 1)
    ELSE LET res == SearchResults(m, query,
                       IndexSearch(m.index, query.top_k * 2, order))
         IN  [raised |-> "none", requests |-> 1, results |-> res,
              total_matches |-> Len(res)]

\* MemoryManager.bulk_add(items): outs[i] is the provider's answer for item
\* i; done counts the add calls made; the first add that raises ends the
\* call
RECURSIVE bulk_add(_, _, _)
bulk_add(m, items, outs) ==
    IF items = <<>> THEN [mem |-> m, raised |-> "none", done |-> 0]
    ELSE LET a == add(m, Head(items), Head(outs))
         IN  IF a.raised # "none"
             THEN [mem |-> a.mem, raised |-> a.raised, done |-> 1]
             ELSE LET r == bulk_add(a.mem, Tail(items), Tail(outs))
                  IN  [r EXCEPT !.done = @ + 1]

----------------------------------------------------------------------------
(* agent.py: WebSearchAgent.process_page *)

\* WebSearchAgent.session_id, fixed when the agent is constructed
session_id == "session-1"

\* perception.extract_content: what a fetch can give
Fetched(t, c) == [is_indexable |-> TRUE, title |-> t, content |-> c]
NotIndexable == [is_indexable |-> FALSE, title |-> "", content |-> EmptyText]
Perceptions == {Fetched(t, c) : t \in Titles, c \in PageTexts} \cup {NotIndexable}

\* lines 56-59: title and content are fetched again when one of them is
\* blank; p2 is what the second fetch gives
Refetched(content, p2) ==
    IF content.title = "" \/ content.content = EmptyText
    THEN [content EXCEPT !.title = p2.title, !.content = p2.content]
    ELSE content

\* the whole handler: p is the fetch, outs the provider's answers to
\* process_webpage, aout its answer to MemoryManager.add.  The tool
\* process_webpage_tool (mcp_server.py 310-321) discards what
\* process_webpage returns, and call_tool's result object is truthy.
process_page(fs, m, url, p, p2, outs, aout) ==
    IF ~p.is_indexable
    THEN [fs |-> fs, mem |-> m, ret |-> FALSE, stage |-> "none",
          status |-> "not_indexable", pw |-> "none", requests |-> 0]
    ELSE
    LET content0 == MemoryItem(url, p.title, p.content, "fact", session_id)
        saved == save_to_index(fs, content0)
        content == Refetched(content0, p2)
        pw == process_webpage(saved.fs, content.url, content.content,
                              content.title, outs)
        a == add(m, content, aout)
    IN  [fs |-> pw.fs, mem |-> a.mem, ret |-> (a.raised = "none"),
         stage |-> a.raised, status |-> pw.status, pw |-> pw.raised,
         requests |-> pw.requests + a.requests]


\* agent.py 240-243: what the /process endpoint answers when process_page
\* returned success
process_url(success) ==
    IF success THEN [code |-> 200, body |-> "status: success"]
    ELSE [code |-> 500, body |-> "error: Failed to process URL"]

----------------------------------------------------------------------------
(* Sequential runs: one call at a time, each an atomic step *)

\* a page as process_page builds it
Item(url, content) == MemoryItem(url, "T", content, "fact", session_id)

CurFs == Fs(dataJson, metaJson, cacheJson, indexBin)
CurMem == Mem(index, data, embeddings)

\* op: the call; ret: what it returned (FALSE also when it raised);
\* status: the branch it took; pw: what process_webpage raised inside it;
\* raised: what MemoryManager.add raised inside it
NoCall == [op |-> "none", ret |-> FALSE, status |-> "none", pw |-> "none",
           raised |-> "none"]

Writers == {"w1", "w2"}
Reader == "r"
Procs == Writers \cup {Reader}

\* url, content: the request; cache, metadata, index: what the process has
\* loaded; todo: the file writes it still has to make, next: where it goes
\* on after them; ret: what its last call returned
NoLoc == [url |-> "", content |-> EmptyText, cache |-> {}, metadata |-> <<>>,
          index |-> NoIndex, todo |-> <<>>, next |-> "idle", ret |-> "none"]

InitFiles ==
    /\ dataJson = NoFile(<<>>)
    /\ metaJson = NoFile(<<>>)
    /\ cacheJson = NoFile({})
    /\ indexBin = NoFile(NoIndex)

\* MemoryManager.__init__ (memory.py 19-21)
InitMemory ==
    /\ index = NoIndex
    /\ data = <<>>
    /\ embeddings = <<>>

Init ==
    /\ InitFiles
    /\ InitMemory
    /\ last = NoCall
    /\ nops = 0
    /\ hist = [added |-> 0, raised |-> 0, first |-> {}]
    /\ pc = [p \in Procs |-> "idle"]
    /\ loc = [p \in Procs |-> NoLoc]
    /\ jobs = [w \in Writers |-> <<>>]

SetFiles(fs) ==
    /\ dataJson' = fs.data
    /\ metaJson' = fs.meta
    /\ cacheJson' = fs.cache
    /\ indexBin' = fs.index

SetMemory(m) ==
    /\ index' = m.index
    /\ data' = m.data
    /\ embeddings' = m.embeddings

\* the first save_to_index call made for a url is remembered
FirstAfter(h, url, content) ==
    IF \E q \in h.first : q[1] = url THEN h
    ELSE [h EXCEPT !.first = @ \cup {<<url, content>>}]

\* the branch save_to_index took: "exists" (lines 148-153), or the page was
\* added and the index files were left alone ("added"), created where none
\* of them existed ("created") or re-created where some did ("recreated")
SaveStatus(fs, r) ==
    IF ~r.added THEN "exists"
    ELSE IF Exists(fs.index) /\ Exists(fs.meta) /\ Exists(fs.cache) THEN "added"
    ELSE IF Exists(fs.index) \/ Exists(fs.meta) \/ Exists(fs.cache) THEN "recreated"
    ELSE "created"

HistAfter(a, content) ==
    IF a.raised # "none" THEN [hist EXCEPT !.raised = @ + 1]
    ELSE IF content # EmptyText THEN [hist EXCEPT !.added = @ + 1]
    ELSE hist

\* save_to_index(content, index_path) called on its own
SaveToIndex(url, content) ==
    /\ nops < MaxOps
    /\ LET r == save_to_index(CurFs, MemoryItem(url, "T", content, "fact", session_id))
       IN  /\ SetFiles(r.fs)
           /\ last' = [NoCall EXCEPT !.op = "save_to_index", !.ret = r.success,
                          !.status = SaveStatus(CurFs, r)]
    /\ hist' = FirstAfter(hist, url, content)
    /\ nops' = nops + 1
    /\ UNCHANGED <<memory, procs>>

\* process_webpage(url, content, title) called on its own (the tool
\* process_webpage_tool)
ProcessWebpage(url, content, outs) ==
    /\ nops < MaxOps
    /\ LET r == process_webpage(CurFs, url, content, "T", outs)
       IN  /\ SetFiles(r.fs)
           /\ last' = [NoCall EXCEPT !.op = "process_webpage", !.ret = r.ret,
                          !.status = r.status, !.pw = r.raised]
    /\ nops' = nops + 1
    /\ UNCHANGED <<memory, hist, procs>>

\* MemoryManager.add(item) called on its own
MemoryAdd(url, content, out) ==
    /\ nops < MaxOps
    /\ LET a == add(CurMem, MemoryItem(url, "T", content, "fact", session_id), out)
       IN  /\ SetMemory(a.mem)
           /\ hist' = HistAfter(a, content)
           /\ last' = [NoCall EXCEPT !.op = "add", !.ret = (a.raised = "none"),
                          !.status = IF a.requests = 0 THEN "empty" ELSE "embedded",
                          !.raised = a.raised]
    /\ nops' = nops + 1
    /\ UNCHANGED <<files, procs>>

Next ==
    \/ \E url \in URLS, content \in PageTexts : SaveToIndex(url, content)
    \/ \E url \in URLS, content \in Texts :
         \E outs \in [1..NChunks(content) -> Outcomes] :
            ProcessWebpage(url, content, outs)
    \/ \E url \in URLS, content \in Texts, out \in Outcomes :
         MemoryAdd(url, content, out)

Spec == Init /\ [][Next]_vars

\* the runs of save_to_index and process_webpage alone: the calls that
\* touch the index files
NextIndex ==
    \/ \E url \in URLS, content \in PageTexts : SaveToIndex(url, content)
    \/ \E url \in URLS, content \in Texts :
         \E outs \in [1..NChunks(content) -> Outcomes] :
            ProcessWebpage(url, content, outs)

SpecIndex == Init /\ [][NextIndex]_vars

----------------------------------------------------------------------------
(* process_webpage when a write of lines 295-298 fails (disk full, file    *)
(* not writable): the writes before it are made, the file being written is *)
(* left as it was or cut short, and the call returns False (305-307).      *)

Written(fs, w, file) ==
    [fs EXCEPT !.cache = IF w.f = "cache" THEN file ELSE @,
               !.meta = IF w.f = "meta" THEN file ELSE @,
               !.index = IF w.f = "index" THEN file ELSE @]

RECURSIVE WriteUpTo(_, _, _)
\* the first k writes of a sequence, made
WriteUpTo(fs, writes, k) ==
    IF k = 0 THEN fs
    ELSE Written(WriteUpTo(fs, writes, k - 1), writes[k], File(writes[k].v))

\* the files after write k of the call failed; cut: the file was truncated
WriteFails(fs, writes, k, cut) ==
    LET before == WriteUpTo(fs, writes, k - 1)
    IN  IF cut THEN Written(before, writes[k], [st |-> "partial", v |-> writes[k].v])
        ELSE before

\* process_webpage(url, content, title) with the write of metadata.json
\* (k = 2) or of index.bin (k = 3) failing
ProcessWebpageWriteFails(url, content, outs, k, cut) ==
    /\ nops < MaxOps
    /\ Readable(cacheJson) /\ Readable(metaJson) /\ Readable(indexBin)
    /\ LET c == PwCompute(PwLoad(CurFs), url, content, "T", outs)
       IN  /\ c.status = "save"
           /\ k <= Len(PwWrites(c.st))
           /\ SetFiles(WriteFails(CurFs, PwWrites(c.st), k, cut))
    /\ last' = [op |-> "process_webpage", ret |-> FALSE, status |-> "error",
                pw |-> "write", raised |-> "none", url |-> url, content |-> content]
    /\ nops' = nops + 1
    /\ UNCHANGED <<memory, hist, procs>>

NextFail ==
    \/ \E url \in URLS, content \in Texts :
         \E outs \in [1..NChunks(content) -> Outcomes] :
            ProcessWebpage(url, content, outs)
    \/ \E url \in URLS, content \in Texts, k \in 2..3, cut \in BOOLEAN :
         \E outs \in [1..NChunks(content) -> Outcomes] :
            ProcessWebpageWriteFails(url, content, outs, k, cut)

SpecFail == Init /\ [][NextFail]_vars

\* mcp_server.py 309-321: what the tool returns for a result of
\* process_webpage, which raises nothing
process_webpage_tool(r) == TRUE

----------------------------------------------------------------------------
(* The agent: pages are ingested through WebSearchAgent.process_page *)

\* WebSearchAgent.process_page(url, session)
ProcessPage(url, p, p2, outs, aout) ==
    /\ nops < MaxPages
    /\ LET r == process_page(CurFs, CurMem, url, p, p2, outs, aout)
           content == Refetched(MemoryItem(url, p.title, p.content, "fact", session_id), p2)
       IN  /\ SetFiles(r.fs)
           /\ SetMemory(r.mem)
           /\ hist' = IF p.is_indexable
                      THEN FirstAfter(HistAfter([raised |-> r.stage], content.content),
                                      url, p.content)
                      ELSE hist
           /\ last' = [NoCall EXCEPT !.op = "process_page", !.ret = r.ret,
                          !.status = r.status, !.pw = r.pw, !.raised = r.stage]
    /\ nops' = nops + 1
    /\ UNCHANGED procs

\* the second fetch of process_page gives the page again, or fails
Refetches(p) ==
    IF p.is_indexable /\ (p.title = "" \/ p.content = EmptyText)
    THEN {p, NotIndexable} ELSE {p}

NextAgent ==
    \E url \in URLS, p \in Perceptions :
       \E p2 \in Refetches(p) :
          \E outs \in [1..NChunks(Refetched(p, p2).content) -> Outcomes],
             aout \in Outcomes :
             ProcessPage(url, p, p2, outs, aout)

SpecAgent == Init /\ [][NextAgent]_vars

----------------------------------------------------------------------------
(* The in-memory MemoryManager: add and search calls *)

TopKs == {1, 3}
Queries == {TextA, Blank}
\* session_filter values: None, the agent's session, the session of a query
\* (agent.py 103)
Sessions == {"None", session_id, "session-2"}

\* MemoryManager.search(query) called on its own
MemorySearch(query, out, order) ==
    /\ nops < MaxOps
    /\ LET r == search(CurMem, query, out, order)
       IN  last' = [NoCall EXCEPT !.op = "search", !.ret = (r.raised = "none"),
                       !.status = IF r.requests = 0 THEN "empty"
                                  ELSE IF r.total_matches > 0 THEN "results"
                                  ELSE "none",
                       !.raised = r.raised]
    /\ nops' = nops + 1
    /\ UNCHANGED <<files, memory, hist, procs>>

NextMemory ==
    \/ \E url \in URLS, content \in Texts, out \in Outcomes :
         MemoryAdd(url, content, out)
    \/ \E q \in Queries, k \in TopKs, f \in Sessions, out \in Outcomes :
         \E order \in Orders(ntotal(index)) :
            MemorySearch(SearchQuery(q, k, f), out, order)

SpecMemory == Init /\ [][NextMemory]_vars

MaxBatches == 2
MaxBatch == 3

\* the batches of at most MaxBatch items
Batches ==
    UNION {[1..n -> {Item(u, c) : u \in URLS, c \in {EmptyText, TextA}}] :
             n \in 1..MaxBatch}

\* MemoryManager.bulk_add(items) called on its own
BulkAdd(items, outs) ==
    /\ nops < MaxBatches
    /\ LET r == bulk_add(CurMem, items, outs)
       IN  /\ SetMemory(r.mem)
           /\ last' = [NoCall EXCEPT !.op = "bulk_add", !.ret = (r.raised = "none"),
                          !.status = IF r.done = Len(items) THEN "all" ELSE "aborted",
                          !.raised = r.raised]
    /\ nops' = nops + 1
    /\ UNCHANGED <<files, hist, procs>>

NextBulk ==
    \E items \in Batches :
       \E outs \in [1..Len(items) -> Outcomes] : BulkAdd(items, outs)

SpecBulk == Init /\ [][NextBulk]_vars

\* the agent process is started again on the same directory:
\* WebSearchAgent.__init__ constructs a new MemoryManager
Restart ==
    /\ last.op # "restart"
    /\ SetMemory(Mem(NoIndex, <<>>, <<>>))
    /\ last' = [NoCall EXCEPT !.op = "restart", !.ret = TRUE]
    /\ UNCHANGED <<files, nops, hist, procs>>

NextRestart ==
    \/ NextAgent
    \/ Restart

SpecRestart == Init /\ [][NextRestart]_vars

----------------------------------------------------------------------------
(* Claims about sequential runs *)

IsPrefix(s, t) == Len(s) <= Len(t) /\ \A i \in 1..Len(s) : s[i] = t[i]


\* C1: as long as every MemoryManager.add call made so far succeeded (none
\* raised), the index, the store and the embeddings list each hold as many
\* entries as calls added a record, and the vector at index position i is
\* the embedding of the record at store position i.
C1_PositionAlignment ==
    hist.raised = 0 =>
        /\ ntotal(index) = hist.added
        /\ Len(data) = hist.added
        /\ Len(embeddings) = hist.added
        /\ \A i \in 1..Len(data) :
              /\ data[i].embedding = <<index.vecs[i]>>
              /\ embeddings[i] = index.vecs[i]
              /\ index.vecs[i].of = data[i].content

\* two successful adds, for two different urls
C1_Witness ==
    /\ hist.raised = 0 /\ hist.added = 2 /\ last.op = "add"
    /\ Len(data) = 2 /\ data[1].url # data[2].url

\* C2: after any add calls, failed ones included, the store and the index
\* have the same length and every record's embedding is the vector at its
\* own position.
C2_LockStep ==
    /\ Len(data) = ntotal(index)
    /\ \A i \in 1..Len(data) : data[i].embedding = <<index.vecs[i]>>

\* C3: adding the same url with the same content twice stores it once: no
\* two records of the store agree on url and content, and total_embeddings
\* counts one embedding per stored (url, content).
C3_AddIdempotent ==
    /\ \A i, j \in 1..Len(data) :
          (data[i].url = data[j].url /\ data[i].content = data[j].content)
              => i = j
    /\ Len(embeddings) =
          Cardinality({<<data[i].url, data[i].content>> : i \in 1..Len(data)})

\* the first chunk whose vector does not have dimension d, every answer
\* before it being a vector of dimension d
Mismatch(outs, d) ==
    \E i \in 1..Len(outs) :
       /\ d # 0
       /\ outs[i] \notin {0, d}
       /\ \A j \in 1..(i - 1) : outs[j] = d

\* C4: in every reachable state, a call that offers a vector of a dimension
\* other than the established one fails and leaves the index as it was:
\* MemoryManager.add raises and self.index keeps its vectors;
\* process_webpage returns False and index.bin keeps its vectors.
C4_DimensionGuard ==
    /\ \A url \in URLS, content \in Texts \ {EmptyText}, d \in Dims :
          (index.init /\ d # index.d) =>
              LET a == add(CurMem, Item(url, content), d)
              IN  a.raised = "dimension" /\ a.mem.index = index
    /\ \A url \in URLS, content \in Texts :
          \A outs \in [1..NChunks(content) -> Outcomes] :
             LET r == process_webpage(CurFs, url, content, "T", outs)
                 D == IF Exists(indexBin) THEN indexBin.v.d ELSE outs[1]
             IN  (NChunks(content) > 0 /\ Mismatch(outs, D) /\ r.status # "skip")
                    => (~r.ret /\ r.raised = "dimension" /\ r.fs.index = indexBin)

\* a dimension mismatch was raised against an index that holds vectors, in
\* memory or on disk
C4_Witness ==
    \/ last.op = "add" /\ last.raised = "dimension" /\ ntotal(index) > 0
    \/ /\ last.op = "process_webpage" /\ last.pw = "dimension"
       /\ Exists(indexBin) /\ ntotal(indexBin.v) > 0

\* C5: data.json holds at most one record per url, the record of a url
\* holds the content of the first save_to_index call made for it, and a
\* call for a stored url changes no file and reports success.
C5_FirstContentWins ==
    LET d == dataJson.v
    IN  /\ \A i, j \in 1..Len(d) : d[i].url = d[j].url => i = j
        /\ \A i \in 1..Len(d) : <<d[i].url, d[i].content>> \in hist.first
        /\ \A q \in hist.first : q[1] \in Urls(d)
        /\ \A url \in Urls(d), content \in PageTexts :
              LET r == save_to_index(CurFs, Item(url, content))
              IN  r.success /\ r.fs = CurFs
        /\ (last.op = "save_to_index" => last.ret)

\* a call for a stored url, with another content than the stored one
C5_Witness ==
    /\ last.op = "save_to_index" /\ last.status = "exists"
    /\ Len(dataJson.v) = 1 /\ nops = 3
    /\ \E q \in hist.first : q[2] # EmptyText

\* C6: in every reachable state, process_webpage called with a url and a
\* content whose hash is the one webpage_cache.json stores for the url
\* returns True, requests no embedding and changes no file; and a call
\* that requests an embedding is for a url whose stored hash is missing or
\* different.
C6_UnchangedIsNoOp ==
    \A url \in URLS, content \in Texts :
       LET stored == Exists(cacheJson)
                     /\ <<url, content_hash(content)>> \in cacheJson.v
       IN  stored =>
              \A outs \in [1..NChunks(content) -> Outcomes] :
                 LET r == process_webpage(CurFs, url, content, "T", outs)
                 IN  r.ret /\ r.requests = 0 /\ r.fs = CurFs

\* an unchanged page was skipped while the index holds its chunks
C6_Witness ==
    /\ last.op = "process_webpage" /\ last.status = "skip" /\ last.ret
    /\ Len(metaJson.v) > 0

\* C7: a process_page call during which the embedding provider failed
\* (inside process_webpage or inside MemoryManager.add) leaves every file
\* and the in-memory index, data and embeddings as they were.
C7_NoPartialInsert ==
    [][(last'.op = "process_page"
        /\ (last'.pw = "embedding" \/ last'.raised = "embedding"))
          => UNCHANGED <<files, memory>>]_vars

\* C10: every step only appends: data.json, metadata.json, the vectors of
\* index.bin, and the in-memory index, store and embeddings list each keep
\* what they held, at the same positions.
C10_AppendOnly ==
    [][/\ IsPrefix(dataJson.v, dataJson'.v)
       /\ IsPrefix(metaJson.v, metaJson'.v)
       /\ IsPrefix(indexBin.v.vecs, indexBin'.v.vecs)
       /\ IsPrefix(index.vecs, index'.vecs)
       /\ IsPrefix(data, data')
       /\ IsPrefix(embeddings, embeddings')]_vars

\* save_to_index re-created the index files where some of them existed
C10_Witness ==
    /\ last.op = "save_to_index" /\ last.status = "recreated"
    /\ Len(dataJson.v) >= 1

----------------------------------------------------------------------------
(* Claims about restart, search and batches *)

\* C24: a process_webpage call that saves and returns True appends, for the
\* n >= 1 chunks of some content, exactly n vectors to index.bin and
\* exactly n records to metadata.json, record i being the one of chunk i
\* with chunk_id (url, i - 1).
C24_OneRecordPerChunk ==
    [][(last'.op = "process_webpage" /\ last'.status = "save" /\ last'.ret
        /\ nops' = nops + 1) =>
          \E url \in URLS, content \in Texts :
             LET chunks == chunk_text(content, CHUNK_SIZE, CHUNK_OVERLAP).chunks
                 n == Len(chunks)
                 old == Len(metaJson.v)
             IN  /\ n >= 1
                 /\ Len(metaJson'.v) = old + n
                 /\ ntotal(indexBin'.v) = ntotal(indexBin.v) + n
                 /\ \A i \in 1..n :
                       metaJson'.v[old + i] = ChunkRecord(url, "T", chunks[i], i - 1)]_vars

\* C25: metadata.json and index.bin hold the same number of entries, and
\* vector i is the embedding of the chunk of metadata record i.
C25_FilesAligned ==
    /\ Len(metaJson.v) = ntotal(indexBin.v)
    /\ \A i \in 1..Len(metaJson.v) : indexBin.v.vecs[i].of = metaJson.v[i].chunk

\* a page of two chunks is in the index files, save_to_index has run, and
\* the last process_webpage call was skipped or failed
C25_Witness ==
    /\ Len(metaJson.v) >= 3
    /\ Exists(dataJson)
    /\ last.op = "process_webpage"
    /\ last.status \in {"skip", "error"}

\* the records of the chunks of a page
ChunksOf(url, content) ==
    LET ch == chunk_text(content, CHUNK_SIZE, CHUNK_OVERLAP).chunks
    IN  {ChunkRecord(url, "T", ch[i], i - 1) : i \in 1..Len(ch)}

\* the chunks of the content are in metadata.json and index.bin
Indexed(fs, url, content) ==
    \A rec \in ChunksOf(url, content) :
       \E j \in 1..Len(fs.meta.v) :
          /\ fs.meta.v[j] = rec
          /\ j <= ntotal(fs.index.v)
          /\ fs.index.v.vecs[j].of = rec.chunk

\* C26: webpage_cache.json maps a url to a hash only if the chunks of a
\* content with that hash are in metadata.json and index.bin for that url;
\* and after a process_webpage call that failed while writing metadata.json
\* or index.bin, a call with the same url and content, every embedding
\* succeeding, is not skipped and ends with the chunks in both files.
C26_FailedWriteIsRetried ==
    /\ \A e \in cacheJson.v :
          \E content \in Texts :
             content_hash(content) = e[2] /\ Indexed(CurFs, e[1], content)
    /\ (last.pw = "write" /\ NChunks(last.content) > 0) =>
          \A d \in Dims :
             LET r == process_webpage(CurFs, last.url, last.content, "T",
                                      [i \in 1..NChunks(last.content) |-> d])
             IN  (~indexBin.v.init \/ indexBin.v.d = d) =>
                    /\ r.status # "skip"
                    /\ r.ret
                    /\ Indexed(r.fs, last.url, last.content)

\* C27: a process_page call returns True only if process_webpage inside it
\* saved the page or skipped it as unchanged, and process_webpage_tool
\* returns true only for a process_webpage call that returned True.
C27_FailureIsReported ==
    /\ (last.op = "process_page" /\ last.ret) =>
          (last.status \in {"save", "skip"} /\ last.pw = "none")
    /\ last.op = "process_page" =>
          \A url \in URLS, content \in {TextA} :
             \A outs \in [1..NChunks(content) -> Outcomes] :
                LET r == process_webpage(CurFs, url, content, "T", outs)
                IN  process_webpage_tool(r) => r.ret

\* C28: while no vector has been inserted, a first embedding of any
\* dimension d is accepted and fixes the dimension at d: by process_webpage
\* on the index files, by MemoryManager.add on the in-memory index.
C28_FirstVectorFixesDimension ==
    /\ ntotal(indexBin.v) = 0 =>
          \A url \in URLS, d \in Dims :
             LET r == process_webpage(CurFs, url, TextA, "T",
                                      [i \in 1..NChunks(TextA) |-> d])
             IN  r.status # "skip" => (r.ret /\ r.fs.index.v.d = d)
    /\ ntotal(index) = 0 =>
          \A url \in URLS, d \in Dims :
             LET a == add(CurMem, Item(url, TextA), d)
             IN  a.raised = "none" /\ a.mem.index.d = d

\* C11: after a restart the MemoryManager holds every page that was
\* persisted with its chunks (a page of data.json with content whose chunks
\* are in metadata.json), and a search for the content of such a page can
\* return it.
C11_ReloadedAtStartup ==
    last.op = "restart" =>
        \A i \in 1..Len(dataJson.v) :
           LET pg == dataJson.v[i]
           IN  (pg.content # EmptyText
                /\ \E j \in 1..Len(metaJson.v) : metaJson.v[j].url = pg.url)
                  => /\ pg.url \in Urls(data)
                     /\ \E out \in Dims, order \in Orders(ntotal(index)) :
                           LET r == search(CurMem, SearchQuery(pg.content, 3, "None"),
                                           out, order)
                           IN  \E k \in 1..Len(r.results) : r.results[k].url = pg.url

\* C12: in every reachable state, a search with a session filter returns
\* only results built from records of that session.
C12_SessionFilter ==
    \A q \in Queries, k \in TopKs, f \in Sessions \ {"None"}, out \in Dims :
       \A order \in Orders(ntotal(index)) :
          LET r == search(CurMem, SearchQuery(q, k, f), out, order)
          IN  \A j \in 1..Len(r.results) :
                 DataAt(data, r.results[j].pos).session_id = f

\* C13: in every reachable state where the index is not initialised or the
\* store is empty, search returns no result and total_matches = 0 for every
\* query, top_k and provider behaviour, raises nothing and requests no
\* embedding.
C13_EmptyMemory ==
    (~index.init \/ Len(data) = 0) =>
        \A q \in Queries, k \in 0..3, f \in Sessions, out \in Outcomes :
           LET r == search(CurMem, SearchQuery(q, k, f), out, <<>>)
           IN  /\ r.raised = "none"
               /\ r.results = <<>>
               /\ r.total_matches = 0
               /\ r.requests = 0

\* a search on a memory that is still empty after an add that raised
C13_Witness ==
    /\ last.op = "search" /\ last.status = "empty" /\ last.ret
    /\ hist.raised > 0
    /\ Len(data) = 0

\* C18: in every reachable state, bulk_add of a batch in which the
\* embedding of exactly one item fails adds every other item that has
\* content to the store and to the index.
C18_BatchRecovered ==
    LET D == IF index.init THEN index.d ELSE dim
    IN  \A items \in Batches, f \in 1..MaxBatch :
           (f <= Len(items) /\ items[f].content # EmptyText) =>
              LET outs == [j \in 1..Len(items) |-> IF j = f THEN 0 ELSE D]
                  others == {j \in 1..Len(items) :
                               j # f /\ items[j].content # EmptyText}
                  r == bulk_add(CurMem, items, outs)
              IN  /\ Len(r.mem.data) = Len(data) + Cardinality(others)
                  /\ ntotal(r.mem.index) = ntotal(index) + Cardinality(others)
                  /\ \A j \in others : items[j].url \in Urls(r.mem.data)

\* C19: in every reachable state with a non-empty memory, a search during
\* which the provider fails raises nothing and returns an empty result.
C19_QueryDegrades ==
    (index.init /\ Len(data) > 0) =>
        \A q \in Queries, k \in TopKs, f \in Sessions :
           \A order \in Orders(ntotal(index)) :
              LET r == search(CurMem, SearchQuery(q, k, f), 0, order)
              IN  r.raised = "none" /\ r.results = <<>> /\ r.total_matches = 0

\* C21: in every reachable state, a search that succeeds returns at most
\* min(2*top_k, n) results for a store of n records, each built from a
\* position p with 0 <= p < n, no position twice, and total_matches is the
\* number of results.
C21_ValidPositions ==
    (index.init /\ Len(data) > 0) =>
        \A q \in Queries, k \in TopKs, f \in Sessions :
           \A order \in Orders(ntotal(index)) :
              LET r == search(CurMem, SearchQuery(q, k, f), index.d, order)
                  n == Len(data)
              IN  /\ r.raised = "none"
                  /\ Len(r.results) <= Min(2 * k, n)
                  /\ \A j \in 1..Len(r.results) :
                        0 <= r.results[j].pos /\ r.results[j].pos < n
                  /\ \A i, j \in 1..Len(r.results) :
                        r.results[i].pos = r.results[j].pos => i = j
                  /\ r.total_matches = Len(r.results)

\* C20: a process_page call for a page that the fetch reports as not
\* indexable changes no file and nothing in the MemoryManager, and the
\* /process endpoint answers without an error.
C20_SkipIsSilent ==
    [][(last'.op = "process_page" /\ last'.status = "not_indexable")
          => /\ UNCHANGED <<files, memory>>
             /\ process_url(last'.ret).code = 200]_vars

----------------------------------------------------------------------------
(* chunk_text on its own *)

MaxWords == 7
MaxSize == 3

ChunkInputs ==
    {[text |-> t, size |-> sz, overlap |-> ov] :
        t \in {Text(3, n) : n \in 0..MaxWords} \cup {Blank},
        sz \in 1..MaxSize, ov \in 0..MaxSize}

\* the stores and the processes at rest, for the runs of one function
InitIdle ==
    /\ InitFiles
    /\ InitMemory
    /\ nops = 0
    /\ hist = [added |-> 0, raised |-> 0, first |-> {}]
    /\ pc = [p \in Procs |-> "idle"]
    /\ loc = [p \in Procs |-> NoLoc]
    /\ jobs = [w \in Writers |-> <<>>]

ChunkCall(in, op, raised, chunks) ==
    [op |-> op, ret |-> ~raised,
     status |-> IF chunks = <<>> THEN "none" ELSE "chunks", pw |-> "none",
     raised |-> IF raised THEN "range" ELSE "none",
     text |-> in.text, size |-> in.size, overlap |-> in.overlap,
     chunks |-> chunks]

InitChunk ==
    /\ InitIdle
    /\ \E in \in ChunkInputs : last = ChunkCall(in, "input", FALSE, <<>>)

\* list(chunk_text(text, size, overlap)) for the input at hand
ChunkText ==
    /\ last.op = "input"
    /\ LET r == chunk_text(last.text, last.size, last.overlap)
       IN  last' = ChunkCall(last, "chunk_text", r.raised, r.chunks)
    /\ UNCHANGED <<files, memory, nops, hist, procs>>

SpecChunk == InitChunk /\ [][ChunkText]_vars

\* text.split() as the sequence of the words of the document
Words(text) == [k \in 1..NWords(text) |-> <<text.src, text.lo + k - 1>>]

\* the words of the first chunk followed by those of every later chunk
\* without its first overlap words
RECURSIVE Rebuilt(_, _, _)
Rebuilt(chunks, overlap, k) ==
    IF k > Len(chunks) THEN <<>>
    ELSE LET w == Words(chunks[k])
         IN  (IF k = 1 THEN w ELSE SubSeq(w, overlap + 1, Len(w)))
             \o Rebuilt(chunks, overlap, k + 1)

\* C16: for size > overlap > 0, chunk k (counted from 0) holds the words
\* k*(size-overlap) .. k*(size-overlap)+size-1 of the text, there is one
\* chunk for every such start below the number of words, and the chunks
\* without their overlaps rebuild the word sequence; a text without words
\* gives no chunk.
C16_ChunkCoverage ==
    (last.op = "chunk_text" /\ last.size > last.overlap /\ last.overlap > 0) =>
        LET step == last.size - last.overlap
            words == Words(last.text)
            n == Len(words)
        IN  /\ last.raised = "none"
            /\ \A k \in 1..Len(last.chunks) :
                  /\ (k - 1) * step < n
                  /\ Words(last.chunks[k]) =
                        SubSeq(words, (k - 1) * step + 1,
                               Min((k - 1) * step + last.size, n))
            /\ Len(last.chunks) * step >= n
            /\ Rebuilt(last.chunks, last.overlap, 1) = words
            /\ (n = 0 => last.chunks = <<>>)

\* a text cut into three or more chunks, the last of them shorter than the
\* overlap
C16_Witness ==
    /\ last.op = "chunk_text" /\ last.size > last.overlap /\ last.overlap > 0
    /\ Len(last.chunks) >= 3
    /\ NWords(last.chunks[Len(last.chunks)]) < last.overlap

\* C17: chunk_text on a text with words and size <= overlap raises.
C17_FailsFast ==
    (last.op = "chunk_text" /\ NWords(last.text) > 0 /\ last.size <= last.overlap)
        => (last.raised # "none" /\ last.chunks = <<>>)

----------------------------------------------------------------------------
(* _find_best_match on its own *)

MaxPad == 60

Pad(ch, n) == [k \in 1..n |-> ch]

\* a sentence of five words and a query of two of them
ExampleContent ==
    <<"T", "h", "e", " ", "q", "u", "i", "c", "k", " ", "b", "r", "o", "w",
      "n", " ", "f", "o", "x", " ", "j", "u", "m", "p", "s">>
ExampleQuery ==
    <<"q", "u", "i", "c", "k", " ", "f", "o", "x">>

\* two words further apart than the largest window
FarContent == Str3("x", "y", "z") \o Pad(" ", 397) \o Str3("a", "b", "c")

\* contents: a word, or none, between two runs of the character x, and the
\* two contents above
MatchContents ==
    {Pad("x", p) \o w \o Pad("x", sfx) :
        p \in 0..MaxPad,
        w \in {Str3("a", "b", "c"), Str3("A", "b", "c"), <<>>},
        sfx \in {0, 2, 30}}
    \cup {ExampleContent, FarContent}

MatchQueries ==
    {<<>>, <<"a", "b">>, <<"a", "b", " ", "c">>, Str3("a", "b", "c"),
     Str3("A", "B", "c"), Str3("z", "z", "z"),
     Str3("x", "x", "x") \o <<" ">> \o Str3("a", "b", "c"),
     Str3("a", "b", "c") \o <<" ", " ">> \o Str3("x", "x", "x"),
     Str3("a", "b", "c") \o <<" ">> \o Str3("a", "b", "c"),
     Str3("a", "b", "c") \o <<" ">> \o Str3("a", "b", "c") \o <<" ">>
        \o Str3("x", "y", "z"),
     ExampleQuery}

MatchCall(op, content, query, span) ==
    [op |-> op, ret |-> TRUE, status |-> "none", pw |-> "none", raised |-> "none",
     content |-> content, query |-> query, start |-> span[1], end |-> span[2]]

InitMatch ==
    /\ InitIdle
    /\ \E c \in MatchContents, q \in MatchQueries :
          last = MatchCall("input", c, q, <<0, 0>>)

\* _find_best_match(content, query) for the input at hand
FindBestMatch ==
    /\ last.op = "input"
    /\ last' = MatchCall("_find_best_match", last.content, last.query,
                         find_best_match(last.content, last.query))
    /\ UNCHANGED <<files, memory, nops, hist, procs>>

SpecMatch == InitMatch /\ [][FindBestMatch]_vars

\* C14: the span returned lies in the content: 0 <= start <= end <=
\* len(content).
C14_HighlightBounds ==
    last.op = "_find_best_match" =>
        /\ 0 <= last.start
        /\ last.start <= last.end
        /\ last.end <= Len(last.content)

\* no word of the query that is longer than 2 occurs, lowercased, in any
\* window of the lowercased content
NoWindowScores(content, query) ==
    \A k \in 1..Len(Windows(Len(content))) :
       LET w == Windows(Len(content))[k]
           window == StrSlice(Lower(content), w.i, w.i + w.size)
       IN  \A word \in {Lower(x) : x \in {y \in {Split(query)[j] : j \in 1..Len(Split(query))} : Len(y) > 2}} :
              Find(window, word) = -1

\* C15: the span is (0, 0) when the query has no word longer than 2
\* characters, and when no such word occurs in any window of the content.
C15_NoMatchIsZero ==
    last.op = "_find_best_match" =>
        /\ (\A j \in 1..Len(Split(last.query)) : Len(Split(last.query)[j]) <= 2)
              => (last.start = 0 /\ last.end = 0)
        /\ NoWindowScores(last.content, last.query)
              => (last.start = 0 /\ last.end = 0)

\* a query of short words only on a content that holds one of them, and a
\* query word that a non-empty content does not hold
C15_Witness ==
    /\ last.op = "_find_best_match"
    /\ last.start = 0 /\ last.end = 0
    /\ \/ last.query = <<"a", "b">> /\ Find(last.content, <<"a", "b">>) > 0
       \/ last.query = Str3("z", "z", "z") /\ Len(last.content) > 100

\* the windows of the content in which a word of the query occurs
Matching(content, query) ==
    {k \in 1..Len(Windows(Len(content))) :
        Scored(Lower(content), QueryWords(query),
               Windows(Len(content))[k]).matches > 0}

\* C22: when some window matches, the span returned is the one of the first
\* window in iteration order with the highest score: from its lowest match
\* offset minus 20 to its highest match offset plus the length of the last
\* query word plus 20, clamped to the content; and the span for the content
\* "The quick brown fox jumps" and the query "quick fox" is (0, 25).
C22_BestWindowSpan ==
    (last.op = "_find_best_match" /\ Matching(last.content, last.query) # {}) =>
        LET n == Len(last.content)
            qw == QueryWords(last.query)
            wins == Windows(n)
            M == Matching(last.content, last.query)
            sc == [k \in M |-> Scored(Lower(last.content), qw, wins[k])]
            b == CHOOSE k \in M :
                    \A j \in M : \/ sc[j].score < sc[k].score
                                 \/ sc[j].score = sc[k].score /\ k <= j
            lo == wins[b].i + SetMin(sc[b].positions) - context_before
            hi == wins[b].i + SetMax(sc[b].positions) + Len(qw[Len(qw)])
                  + context_after
        IN  /\ last.start = (IF lo > 0 THEN lo ELSE 0)
            /\ last.end = Min(n, hi)
            /\ (last.content = ExampleContent /\ last.query = ExampleQuery)
                  => (last.start = 0 /\ last.end = 25)

\* the words of the query, each kept once, joined by single spaces
RECURSIVE Distinct(_, _)
Distinct(ws, k) ==
    IF k > Len(ws) THEN <<>>
    ELSE IF \E j \in 1..(k - 1) : Lower(ws[j]) = Lower(ws[k])
         THEN Distinct(ws, k + 1)
         ELSE (IF k = 1 THEN <<>> ELSE <<" ">>) \o ws[k] \o Distinct(ws, k + 1)

\* C23: the match count of every window is the number of distinct query
\* words that occur in it, and the span returned is the span for the query
\* with every repeated word dropped.
C23_DistinctWords ==
    last.op = "_find_best_match" =>
        LET cl == Lower(last.content)
            qw == QueryWords(last.query)
            wins == Windows(Len(last.content))
        IN  /\ \A k \in 1..Len(wins) :
                  Scored(cl, qw, wins[k]).matches =
                     Cardinality({qw[j] : j \in {i \in 1..Len(qw) :
                        Find(StrSlice(cl, wins[k].i, wins[k].i + wins[k].size),
                             qw[i]) # -1}})
            /\ <<last.start, last.end>> =
                  find_best_match(last.content, Distinct(Split(last.query), 1))

----------------------------------------------------------------------------
(* Concurrent requests.  A writer serves /process requests: save_to_index  *)
(* in the agent, then process_webpage in the server process started for    *)
(* the request (agent.py 216-230); nothing locks the files.  The reader is *)
(* a search_pages call.  Every file read and every file write is a step of *)
(* its own, and a write is two steps: the file is opened and truncated,    *)
(* then its new content is complete.  A file read between the two does not *)
(* parse.  The MemoryManager.add that ends process_page touches no file    *)
(* and is left out here.                                                   *)

Jobs == {[url |-> u, content |-> c] : u \in URLS, c \in {TextA, LongText}}

RECURSIVE SeqsOf(_, _)
SeqsOf(S, n) ==
    IF n = 0 THEN {<<>>}
    ELSE {Append(q, x) : q \in SeqsOf(S, n - 1), x \in S}

InitProcs ==
    /\ InitFiles
    /\ InitMemory
    /\ last = NoCall
    /\ nops = 0
    /\ hist = [added |-> 0, raised |-> 0, first |-> {}]
    /\ pc = [p \in Procs |-> "idle"]
    /\ loc = [p \in Procs |-> NoLoc]

\* one writer serving its requests one after the other, and the reader
InitRW ==
    /\ InitProcs
    /\ \E q \in SeqsOf(Jobs, MaxJobs) : jobs = [w \in Writers |-> IF w = "w1" THEN q ELSE <<>>]

\* two requests for different urls, each served by its own writer
InitWW ==
    /\ InitProcs
    /\ \E j1, j2 \in Jobs :
          /\ j1.url # j2.url
          /\ jobs = [w \in Writers |-> IF w = "w1" THEN <<j1>> ELSE <<j2>>]

Goto(p, l) == pc' = [pc EXCEPT ![p] = l]
SetLoc(p, r) == loc' = [loc EXCEPT ![p] = r]
Return(p, ret) ==
    /\ Goto(p, "idle")
    /\ SetLoc(p, [NoLoc EXCEPT !.ret = ret, !.url = loc[p].url,
                               !.content = loc[p].content])

SetFile(f, val) ==
    /\ dataJson' = IF f = "data" THEN val ELSE dataJson
    /\ metaJson' = IF f = "meta" THEN val ELSE metaJson
    /\ cacheJson' = IF f = "cache" THEN val ELSE cacheJson
    /\ indexBin' = IF f = "index" THEN val ELSE indexBin

\* agent.py 203-230: a /process request is taken up
StartJob(w) ==
    /\ pc[w] = "idle"
    /\ jobs[w] # <<>>
    /\ jobs' = [jobs EXCEPT ![w] = Tail(@)]
    /\ SetLoc(w, [NoLoc EXCEPT !.url = Head(jobs[w]).url,
                              !.content = Head(jobs[w]).content])
    /\ Goto(w, "save_read")
    /\ UNCHANGED <<files, memory, last, nops, hist>>

\* action.py 113-127: data.json is read; a new url is appended and the file
\* written back; a file that does not parse ends save_to_index (line 155)
SaveRead(w) ==
    /\ pc[w] = "save_read"
    /\ LET r == save_to_index(CurFs, Item(loc[w].url, loc[w].content))
       IN  IF r.added
           THEN /\ SetLoc(w, [loc[w] EXCEPT !.todo = <<Write("data", r.fs.data.v)>>,
                                             !.next = "save_check"])
                /\ Goto(w, "write")
           ELSE /\ Goto(w, "pw_load_cache")
                /\ UNCHANGED loc
    /\ UNCHANGED <<files, memory, last, nops, hist, jobs>>

\* action.py 130-141: the index files are re-created unless all exist
SaveCheck(w) ==
    /\ pc[w] = "save_check"
    /\ LET fs == CreateEmptyIndexFiles(CurFs)
       IN  IF fs = CurFs
           THEN /\ Goto(w, "pw_load_cache")
                /\ UNCHANGED loc
           ELSE /\ SetLoc(w, [loc[w] EXCEPT
                        !.todo = <<Write("meta", fs.meta.v), Write("cache", fs.cache.v),
                                   Write("index", fs.index.v)>>,
                        !.next = "pw_load_cache"])
                /\ Goto(w, "write")
    /\ UNCHANGED <<files, memory, last, nops, hist, jobs>>

\* open(path, 'w'), write_text, faiss.write_index: the file is truncated
WriteOpen(p) ==
    /\ pc[p] = "write"
    /\ SetFile(Head(loc[p].todo).f, [st |-> "partial", v |-> Head(loc[p].todo).v])
    /\ Goto(p, "writing")
    /\ UNCHANGED <<memory, last, nops, hist, loc, jobs>>

\* the new content of the file is complete
WriteClose(p) ==
    /\ pc[p] = "writing"
    /\ SetFile(Head(loc[p].todo).f, File(Head(loc[p].todo).v))
    /\ SetLoc(p, [loc[p] EXCEPT !.todo = Tail(@)])
    /\ Goto(p, IF Len(loc[p].todo) = 1 THEN loc[p].next ELSE "write")
    /\ UNCHANGED <<memory, last, nops, hist, jobs>>

\* mcp_server.py 249: webpage_cache.json is loaded (line 305 when it does
\* not parse)
PwLoadCache(w) ==
    /\ pc[w] = "pw_load_cache"
    /\ IF Readable(cacheJson)
       THEN /\ SetLoc(w, [loc[w] EXCEPT !.cache = PwLoad(CurFs).cache])
            /\ Goto(w, "pw_load_meta")
       ELSE Return(w, "error")
    /\ UNCHANGED <<files, memory, last, nops, hist, jobs>>

\* mcp_server.py 250
PwLoadMeta(w) ==
    /\ pc[w] = "pw_load_meta"
    /\ IF Readable(metaJson)
       THEN /\ SetLoc(w, [loc[w] EXCEPT !.metadata = PwLoad(CurFs).metadata])
            /\ Goto(w, "pw_load_index")
       ELSE Return(w, "error")
    /\ UNCHANGED <<files, memory, last, nops, hist, jobs>>

\* mcp_server.py 251
PwLoadIndex(w) ==
    /\ pc[w] = "pw_load_index"
    /\ IF Readable(indexBin)
       THEN /\ SetLoc(w, [loc[w] EXCEPT !.index = PwLoad(CurFs).index])
            /\ Goto(w, "pw_compute")
       ELSE Return(w, "error")
    /\ UNCHANGED <<files, memory, last, nops, hist, jobs>>

\* mcp_server.py 253-303 up to the writes
PwComputeStep(w, outs) ==
    /\ pc[w] = "pw_compute"
    /\ LET c == PwCompute([cache |-> loc[w].cache, metadata |-> loc[w].metadata,
                           index |-> loc[w].index],
                          loc[w].url, loc[w].content, "T", outs)
       IN  CASE c.status = "skip" -> Return(w, "skip")
             [] c.status = "error" -> Return(w, "error")
             [] OTHER ->
                  /\ SetLoc(w, [loc[w] EXCEPT
                        !.todo = PwWrites(c.st), !.next = "idle",
                        !.cache = {}, !.metadata = <<>>, !.index = NoIndex,
                        !.ret = IF IndexWritten(c.st.index) THEN "saved"
                                ELSE "nocontent"])
                  /\ Goto(w, "write")
    /\ UNCHANGED <<files, memory, last, nops, hist, jobs>>

\* mcp_server.py 59-64: search_pages is called and looks for the two files
RExists ==
    /\ pc[Reader] = "idle"
    /\ IF Exists(indexBin) /\ Exists(metaJson)
       THEN /\ Goto(Reader, "r_read_index")
            /\ SetLoc(Reader, NoLoc)
       ELSE Return(Reader, "noindex")
    /\ UNCHANGED <<files, memory, last, nops, hist, jobs>>

\* mcp_server.py 67 (line 100 when the file does not parse)
RReadIndex ==
    /\ pc[Reader] = "r_read_index"
    /\ IF Readable(indexBin)
       THEN /\ SetLoc(Reader, [loc[Reader] EXCEPT !.index = indexBin.v])
            /\ Goto(Reader, "r_read_meta")
       ELSE Return(Reader, "error")
    /\ UNCHANGED <<files, memory, last, nops, hist, jobs>>

\* mcp_server.py 68
RReadMeta ==
    /\ pc[Reader] = "r_read_meta"
    /\ IF Readable(metaJson)
       THEN /\ SetLoc(Reader, [loc[Reader] EXCEPT !.metadata = metaJson.v])
            /\ Goto(Reader, "r_search")
       ELSE Return(Reader, "error")
    /\ UNCHANGED <<files, memory, last, nops, hist, jobs>>

\* mcp_server.py 70-102: the search on what was read; out is the provider's
\* answer for the query
RSearch(out) ==
    /\ pc[Reader] = "r_search"
    /\ Return(Reader,
          IF ntotal(loc[Reader].index) = 0 \/ loc[Reader].metadata = <<>>
          THEN "empty"
          ELSE IF out = 0 \/ out # loc[Reader].index.d THEN "error"
          ELSE "results")
    /\ UNCHANGED <<files, memory, last, nops, hist, jobs>>

NextWriters ==
    \/ \E w \in Writers : StartJob(w)
    \/ \E w \in Writers : SaveRead(w)
    \/ \E w \in Writers : SaveCheck(w)
    \/ \E w \in Writers : WriteOpen(w)
    \/ \E w \in Writers : WriteClose(w)
    \/ \E w \in Writers : PwLoadCache(w)
    \/ \E w \in Writers : PwLoadMeta(w)
    \/ \E w \in Writers : PwLoadIndex(w)
    \/ \E w \in Writers :
          \E outs \in [1..NChunks(loc[w].content) -> Outcomes] : PwComputeStep(w, outs)

NextProcs ==
    \/ NextWriters
    \/ RExists
    \/ RReadIndex
    \/ RReadMeta
    \/ \E out \in Outcomes : RSearch(out)

SpecRW == InitRW /\ [][NextProcs]_vars
SpecWW == InitWW /\ [][NextWriters]_vars

\* C8: whenever the reader holds both the index and the metadata it has
\* read, the metadata has at least as many records as the index has
\* vectors.
C8_ReaderNeverShort ==
    pc[Reader] = "r_search" =>
        Len(loc[Reader].metadata) >= ntotal(loc[Reader].index)

\* the reader holds a non-empty index and metadata while the writer is
\* between its writes of the next page
C8_Witness ==
    /\ pc[Reader] = "r_search"
    /\ ntotal(loc[Reader].index) > 0
    /\ pc["w1"] \in {"write", "writing"}
    /\ loc["w1"].ret = "saved"
    /\ Len(metaJson.v) > ntotal(loc[Reader].index)

Range_(q) == {q[i] : i \in 1..Len(q)}

\* C9: when two requests for different urls have both been served and both
\* process_webpage calls saved their page, data.json holds both pages,
\* metadata.json holds the chunks of both, and metadata.json is as long as
\* index.bin has vectors.
C9_NoLostUpdate ==
    (/\ \A w \in Writers : pc[w] = "idle" /\ jobs[w] = <<>> /\ loc[w].ret = "saved")
        =>
        /\ \A w \in Writers : loc[w].url \in Urls(dataJson.v)
        /\ \A w \in Writers :
              ChunksOf(loc[w].url, loc[w].content) \subseteq Range_(metaJson.v)
        /\ Len(metaJson.v) = ntotal(indexBin.v)

----------------------------------------------------------------------------
(* WebSearchAgent.process_query (agent.py 96-182), one step per call it    *)
(* makes.  What the perception, the planner, the tools and the embedding   *)
(* provider answer is an input of the step; every one of these calls       *)
(* returns or raises.  plans and tools count the generate_plan calls and   *)
(* the tool executions of the query; stop remembers why the loop was left. *)

max_steps == 3
MaxQueries == 2

Query == "q"

\* the plans generate_plan can return, by what process_query tests of them
Plans == {"NO_TOOL_NEEDED:", "NO_TOOL_NEEDED: answer",
          "RELEVANT_CONTEXT_FOUND:", "FUNCTION_CALL:"}

\* str(result.result) of a tool call
ToolOutputs == {EmptyText, TextA}

\* search_results.final_answer of process_search_query
Answers == {"None", "", "answer"}

\* lines 99-102
QueryLocals ==
    [step |-> 0, context_found |-> FALSE, final_answer |-> "None",
     plans |-> 0, tools |-> 0, stop |-> "none", ret |-> "none"]

InitQuery ==
    /\ InitFiles
    /\ InitMemory
    /\ last = NoCall
    /\ nops = 0
    /\ hist = [added |-> 0, raised |-> 0, first |-> {}]
    /\ pc = [p \in {Query} |-> "idle"]
    /\ loc = [p \in {Query} |-> QueryLocals]
    /\ jobs = [w \in {} |-> <<>>]

\* process_query is called
QStart ==
    /\ pc[Query] = "idle"
    /\ nops < MaxQueries
    /\ nops' = nops + 1
    /\ SetLoc(Query, QueryLocals)
    /\ Goto(Query, "while")
    /\ UNCHANGED <<files, memory, last, hist, jobs>>

\* mutant: one iteration more
QWhile_le ==
    /\ pc[Query] = "while"
    /\ Goto(Query, IF loc[Query].step <= max_steps /\ ~loc[Query].context_found
                   THEN "body" ELSE "after")
    /\ UNCHANGED <<files, memory, last, nops, hist, loc, jobs>>

\* line 105: the loop test
QWhile ==
    /\ pc[Query] = "while"
    /\ Goto(Query, IF loc[Query].step < max_steps /\ ~loc[Query].context_found
                   THEN "body" ELSE "after")
    /\ UNCHANGED <<files, memory, last, nops, hist, loc, jobs>>

\* lines 109-136: extract_perception, memory.search and generate_plan, then
\* the two branches that leave the loop; sq is what process_search_query
\* gives at line 134.  The memories retrieved only go into the prompt of the
\* planner, whose answer is an input here, so the order in which the index
\* returns them is left fixed.
QPlan(perceived, out, plan, sq) ==
    /\ pc[Query] = "body"
    /\ LET l == loc[Query]
           order == [j \in 1..ntotal(index) |-> j - 1]
           r == search(CurMem, SearchQuery(TextA, 3, session_id), out, order)
           planned == [l EXCEPT !.plans = @ + 1]
       IN  IF ~perceived \/ r.raised # "none" \/ plan = "raise"
           THEN /\ Goto(Query, "except")
                /\ SetLoc(Query, IF perceived /\ r.raised = "none" THEN planned ELSE l)
           ELSE IF plan \in {"NO_TOOL_NEEDED:", "NO_TOOL_NEEDED: answer"}
           THEN /\ Goto(Query, "after")
                /\ SetLoc(Query, [planned EXCEPT
                      !.context_found = TRUE,
                      !.final_answer = IF plan = "NO_TOOL_NEEDED:" THEN "" ELSE "answer",
                      !.stop = "no_tool"])
           ELSE IF plan = "RELEVANT_CONTEXT_FOUND:"
           THEN /\ Goto(Query, IF sq = "raise" THEN "except" ELSE "after")
                /\ SetLoc(Query, [planned EXCEPT
                      !.context_found = TRUE,
                      !.final_answer = IF sq = "raise" THEN @ ELSE sq,
                      !.stop = "relevant"])
           ELSE /\ Goto(Query, "tool")
                /\ SetLoc(Query, planned)
    /\ UNCHANGED <<files, memory, last, nops, hist, jobs>>

\* lines 138-164: execute_tool and memory.add of its output; executed: the
\* tool call returned, res: its output
QTool(executed, res, out) ==
    /\ pc[Query] = "tool"
    /\ LET l == [loc[Query] EXCEPT !.tools = @ + 1]
       IN  IF ~executed
           THEN /\ Goto(Query, "after")
                /\ SetLoc(Query, [l EXCEPT !.stop = "tool_failed"])
                /\ UNCHANGED memory
           ELSE LET a == add(CurMem, MemoryItem("", "", res, "tool_output", session_id),
                             out)
                IN  /\ SetMemory(a.mem)
                    /\ IF a.raised # "none"
                       THEN /\ Goto(Query, "after")
                            /\ SetLoc(Query, [l EXCEPT !.stop = "tool_failed"])
                       ELSE /\ Goto(Query, "while")
                            /\ SetLoc(Query, [l EXCEPT !.step = @ + 1])
    /\ UNCHANGED <<files, last, nops, hist, jobs>>

\* lines 167-175: the answer of process_search_query where there is none
\* yet, and the return
QAfter(sq) ==
    /\ pc[Query] = "after"
    /\ LET l == loc[Query]
       IN  IF l.final_answer \in {"None", ""} /\ sq = "raise"
           THEN /\ Goto(Query, "except")
                /\ UNCHANGED loc
           ELSE /\ Goto(Query, "idle")
                /\ SetLoc(Query, [l EXCEPT
                      !.final_answer = IF @ \in {"None", ""} THEN sq ELSE @,
                      !.ret = [success |-> TRUE]])
    /\ UNCHANGED <<files, memory, last, nops, hist, jobs>>

\* lines 177-182
QExcept ==
    /\ pc[Query] = "except"
    /\ Goto(Query, "idle")
    /\ SetLoc(Query, [loc[Query] EXCEPT !.ret = [success |-> FALSE]])
    /\ UNCHANGED <<files, memory, last, nops, hist, jobs>>

\* the steps of a call that has started
QSteps ==
    \/ QWhile
    \/ \E perceived \in BOOLEAN, out \in Outcomes, plan \in Plans \cup {"raise"},
          sq \in Answers \cup {"raise"} :
          QPlan(perceived, out, plan, sq)
    \/ \E executed \in BOOLEAN, res \in ToolOutputs, out \in Outcomes :
          QTool(executed, res, out)
    \/ \E sq \in Answers \cup {"raise"} : QAfter(sq)
    \/ QExcept

NextQuery == QStart \/ QSteps

\* the coroutine is run until it returns: no step of it waits for anything
\* but the call it makes
SpecQuery == InitQuery /\ [][NextQuery]_vars /\ WF_vars(QSteps)

\* C29: a process_query call makes at most max_steps generate_plan calls and
\* at most max_steps tool executions; once a plan started with
\* NO_TOOL_NEEDED: or RELEVANT_CONTEXT_FOUND: or a tool call failed it makes
\* no further plan and executes no further tool; and every call that has
\* started returns a dict with a success field.
C29_QueryTerminates ==
    /\ [](/\ loc[Query].plans <= max_steps
          /\ loc[Query].tools <= max_steps
          /\ pc[Query] = "idle" /\ nops > 0 => loc[Query].ret.success \in BOOLEAN)
    /\ [][(pc[Query] # "idle" /\ loc[Query].stop # "none") =>
             /\ loc'[Query].plans = loc[Query].plans
             /\ loc'[Query].tools = loc[Query].tools]_vars
    /\ (pc[Query] # "idle") ~> (pc[Query] = "idle")

\* a call that made three plans and executed three tools has returned
C29_Witness ==
    /\ pc[Query] = "idle"
    /\ loc[Query].plans = max_steps
    /\ loc[Query].tools = max_steps
    /\ loc[Query].ret = [success |-> TRUE]

====
